---- MODULE Spec2Model ----
(***************************************************************************)
(* A model of the AI-Doctor consultation assistant:                        *)
(*   medbot/memory.py     MedicalMemoryManager (message list, fact         *)
(*                        extractor, patient summary)                      *)
(*   medbot/handlers.py   respond / reset_chat and the module globals      *)
(*   medbot_1/model.py    ModelManager.generate (the text generation port) *)
(*   medbot/interface.py  the Gradio handlers that call respond, and the   *)
(*                        threads that speak a text                        *)
(*                                                                         *)
(* A Python str is a sequence of one-character strings.  A long fixed text *)
(* of the program (an apology, the disclaimer, the HTML around a message)  *)
(* is one element of such a sequence, named after the text it stands for;  *)
(* the emoji of these texts are left out.                                  *)
(*                                                                         *)
(* A handler runs in one step up to the next call of generate, the only    *)
(* call that blocks; the steps of different handlers interleave.  What     *)
(* generate returns does not depend on the prompt in the model; the        *)
(* arguments of each call are kept with the locals of the call of respond. *)
(***************************************************************************)
EXTENDS Naturals, Sequences, FiniteSets, TLC

VARIABLES
    conversation_turns,  \* handlers.py:10  the module-global turn counter
    memory_manager,      \* handlers.py:9   the module-global MedicalMemoryManager
    model_manager,       \* handlers.py:8   the module-global ModelManager
    clock,               \* the value the next datetime.now() returns
    chat_history,        \* the gr.Chatbot value of each browser session
    call,                \* each event chain: where it is, and its locals
    interface_instance,  \* interface.py:350  the one VoiceEnhancedInterface
    threads,             \* the threads started for speak_text, and their play_worker
    respond_calls,       \* history: respond calls begun since the program started
    failures,            \* history: generate calls that raised or returned the apology
    turns_since_reset,   \* history: respond calls begun since the last reset_chat
    session_turns,       \* history: per session, its respond calls since its own reset
    ret                  \* the operation that returned last, and what it returned

vars == << conversation_turns, memory_manager, model_manager, clock,
           chat_history, call, interface_instance, threads, respond_calls,
           failures, turns_since_reset, session_turns, ret >>

-----------------------------------------------------------------------------
(* Bounds of the model *)

\* respond is called at most MaxTurns times
MaxTurns == 5
\* at most MaxFailures calls of generate fail
MaxFailures == 1
\* datetime.now() is not called any more once the clock has reached MaxClock
MaxClock == 2
\* the largest window size k a stand-alone MedicalMemoryManager is built with
MaxK == 2
\* add_interaction calls on a stand-alone MedicalMemoryManager
MaxInteractions == 3
\* entries of a Chatbot value while event chains overlap
MaxEntries == 3
\* pairs of a history handed to build_gemini_prompt on its own
MaxHistory == 4
\* add_interaction calls before a patient summary is asked for
MaxRecorded == 4
\* threads that run speak_text or play_worker at once
MaxThreads == 2
\* blocks of 4096 frames in the audio of a spoken text
MaxBlocks == 2
\* calls of respond while texts are spoken
MaxReplies == 2

-----------------------------------------------------------------------------
(* Python values *)

\* Python's None: no str of the model is this one element
None == << "None" >>

Min(S) == CHOOSE x \in S : \A y \in S : x <= y

\* list[-n:]
LastN(list, n) ==
    IF Len(list) <= n THEN list ELSE SubSeq(list, Len(list) - n + 1, Len(list))

\* x in list
InList(x, list) == \E i \in 1..Len(list) : list[i] = x

RECURSIVE Concat(_)
\* "".join(parts)
Concat(parts) ==
    IF parts = << >> THEN << >> ELSE Head(parts) \o Concat(Tail(parts))

UpperLetters ==
    << "A", "B", "C", "D", "E", "F", "G", "H", "I", "J", "K", "L", "M",
       "N", "O", "P", "Q", "R", "S", "T", "U", "V", "W", "X", "Y", "Z" >>

LowerLetters ==
    << "a", "b", "c", "d", "e", "f", "g", "h", "i", "j", "k", "l", "m",
       "n", "o", "p", "q", "r", "s", "t", "u", "v", "w", "x", "y", "z" >>

Digits == << "0", "1", "2", "3", "4", "5", "6", "7", "8", "9" >>

LowerChar(c) ==
    IF \E i \in 1..26 : UpperLetters[i] = c
    THEN LowerLetters[CHOOSE i \in 1..26 : UpperLetters[i] = c]
    ELSE c

\* str.lower()
Lower(s) == [i \in 1..Len(s) |-> LowerChar(s[i])]

IsSpace(c) == c \in {" ", "\t", "\n", "\r", "\f"}

RECURSIVE LStrip(_)
LStrip(s) == IF s # << >> /\ IsSpace(Head(s)) THEN LStrip(Tail(s)) ELSE s

RECURSIVE RStrip(_)
RStrip(s) ==
    IF s # << >> /\ IsSpace(s[Len(s)]) THEN RStrip(SubSeq(s, 1, Len(s) - 1)) ELSE s

\* str.strip()
Strip(s) == RStrip(LStrip(s))

\* the substring test  kw in s
Contains(s, kw) ==
    \E i \in 1..(Len(s) + 1) :
        /\ i + Len(kw) - 1 <= Len(s)
        /\ SubSeq(s, i, i + Len(kw) - 1) = kw

\* any(k in s for k in keywords)
AnyKeyword(s, keywords) == \E j \in 1..Len(keywords) : Contains(s, keywords[j])

-----------------------------------------------------------------------------
(* memory.py: the keyword lists of the fact extractor *)

symptom_keywords ==
    << <<"p", "a", "i", "n">>,
       <<"a", "c", "h", "e">>,
       <<"h", "u", "r", "t">>,
       <<"s", "o", "r", "e">>,
       <<"c", "o", "u", "g", "h">>,
       <<"f", "e", "v", "e", "r">>,
       <<"n", "a", "u", "s", "e", "a">>,
       <<"h", "e", "a", "d", "a", "c", "h", "e">>,
       <<"d", "i", "z", "z", "y">>,
       <<"t", "i", "r", "e", "d">>,
       <<"f", "a", "t", "i", "g", "u", "e">>,
       <<"v", "o", "m", "i", "t">>,
       <<"s", "w", "o", "l", "l", "e", "n">>,
       <<"r", "a", "s", "h">>,
       <<"i", "t", "c", "h">>,
       <<"b", "u", "r", "n">>,
       <<"c", "r", "a", "m", "p">>,
       <<"b", "l", "e", "e", "d">>,
       <<"s", "h", "o", "r", "t", "n", "e", "s", "s", " ", "o", "f", " ",
         "b", "r", "e", "a", "t", "h">> >>

time_keywords ==
    << <<"d", "a", "y", "s">>,
       <<"w", "e", "e", "k", "s">>,
       <<"m", "o", "n", "t", "h", "s">>,
       <<"h", "o", "u", "r", "s">>,
       <<"y", "e", "s", "t", "e", "r", "d", "a", "y">>,
       <<"t", "o", "d", "a", "y">>,
       <<"s", "t", "a", "r", "t", "e", "d">>,
       <<"b", "e", "g", "a", "n">> >>

med_keywords ==
    << <<"t", "a", "k", "i", "n", "g">>,
       <<"m", "e", "d", "i", "c", "a", "t", "i", "o", "n">>,
       <<"m", "e", "d", "i", "c", "i", "n", "e">>,
       <<"p", "i", "l", "l", "s">>,
       <<"p", "r", "e", "s", "c", "r", "i", "b", "e", "d">>,
       <<"d", "r", "u", "g">> >>

allergy_keywords ==
    << <<"a", "l", "l", "e", "r", "g", "i", "c">>,
       <<"a", "l", "l", "e", "r", "g", "y">>,
       <<"a", "l", "l", "e", "r", "g", "i", "e", "s">>,
       <<"r", "e", "a", "c", "t", "i", "o", "n">> >>

\* the words of the severity pattern, (?:pain|severity|scale)
severity_words ==
    << <<"p", "a", "i", "n">>,
       <<"s", "e", "v", "e", "r", "i", "t", "y">>,
       <<"s", "c", "a", "l", "e">> >>

-----------------------------------------------------------------------------
(* memory.py:50  re.search(r'\b([1-9]|10)\b.*(?:pain|severity|scale)', s) *)

\* \w
IsWordChar(c) ==
    \/ \E i \in 1..26 : LowerLetters[i] = c \/ UpperLetters[i] = c
    \/ \E i \in 1..10 : Digits[i] = c
    \/ c = "_"

\* \b between s[p] and s[p+1]  (p = 0 is the start, p = Len(s) the end)
WordBoundary(s, p) ==
    (p >= 1 /\ IsWordChar(s[p])) # (p + 1 <= Len(s) /\ IsWordChar(s[p + 1]))

\* .*(?:pain|severity|scale) from s[p] on: "." stops at a line break
SeverityTail(s, p) ==
    \E j \in p..Len(s) : \E w \in 1..Len(severity_words) :
        /\ j + Len(severity_words[w]) - 1 <= Len(s)
        /\ SubSeq(s, j, j + Len(severity_words[w]) - 1) = severity_words[w]
        /\ \A q \in p..(j - 1) : s[q] # "\n"

\* the text group 1 takes when the pattern matches at s[i], << >> when it does not:
\* the alternative [1-9] is tried before the alternative 10
SeverityGroupAt(s, i) ==
    IF ~WordBoundary(s, i - 1) THEN << >>
    ELSE IF /\ \E d \in 2..10 : Digits[d] = s[i]
            /\ WordBoundary(s, i)
            /\ SeverityTail(s, i + 1)
         THEN << s[i] >>
    ELSE IF /\ i + 1 <= Len(s)
            /\ s[i] = "1" /\ s[i + 1] = "0"
            /\ WordBoundary(s, i + 1)
            /\ SeverityTail(s, i + 2)
         THEN << "1", "0" >>
    ELSE << >>

\* severity_match.group(1) of the leftmost match, None when nothing matches
severity_match(s) ==
    LET starts == { i \in 1..Len(s) : SeverityGroupAt(s, i) # << >> }
    IN  IF starts = {} THEN None ELSE SeverityGroupAt(s, Min(starts))

-----------------------------------------------------------------------------
(* memory.py: MedicalMemoryManager *)

\* the ISO-8601 text of the timestamp t
isoformat(t) == << "T", ToString(t) >>

\* d[key] = value  (a dict is the sequence of its items in insertion order)
DictPut(d, key, value) ==
    IF \E i \in 1..Len(d) : d[i].key = key
    THEN [ i \in 1..Len(d) |-> IF d[i].key = key THEN [key |-> key, value |-> value] ELSE d[i] ]
    ELSE Append(d, [key |-> key, value |-> value])

\* a value of a dict whose type matters: a str object (an int object has type
\* "int" and a number as its value)
PyStr(s) == [type |-> "str", value |-> s]

HumanMessage(content) == [type |-> "human", content |-> content]

AIMessage(content) == [type |-> "ai", content |-> content]

\* memory.py:92-99
EmptyContext(now) ==
    [ symptoms |-> << >>, medications |-> << >>, allergies |-> << >>,
      timeline |-> << >>, severity_scores |-> << >>, session_start |-> isoformat(now) ]

\* does _extract_medical_info(user_input) read the clock
ReadsClock(user_input) == severity_match(Lower(user_input)) # None

\* memory.py:40-42 without the membership test of line 41
SymptomsUnguarded(symptoms, user_input, user_lower) ==
    IF AnyKeyword(user_lower, symptom_keywords)
    THEN Append(symptoms, user_input)
    ELSE symptoms

\* memory.py:40-42
SymptomsAfter(symptoms, user_input, user_lower) ==
    IF AnyKeyword(user_lower, symptom_keywords) /\ ~InList(user_input, symptoms)
    THEN Append(symptoms, user_input)
    ELSE symptoms

\* memory.py:30-62 with the branches chained by elif: the first category that
\* matches is the only one recorded
extract_medical_info_chained(pc, user_input, now) ==
    LET user_lower == Lower(user_input)
        m == severity_match(user_lower)
    IN  IF AnyKeyword(user_lower, symptom_keywords)
        THEN [ pc EXCEPT !.symptoms = SymptomsAfter(@, user_input, user_lower) ]
        ELSE IF AnyKeyword(user_lower, time_keywords)
        THEN [ pc EXCEPT !.timeline = Append(@, user_input) ]
        ELSE IF m # None
        THEN [ pc EXCEPT !.severity_scores = DictPut(@, isoformat(now), PyStr(m)) ]
        ELSE IF AnyKeyword(user_lower, med_keywords)
        THEN [ pc EXCEPT !.medications = Append(@, user_input) ]
        ELSE IF AnyKeyword(user_lower, allergy_keywords)
        THEN [ pc EXCEPT !.allergies = Append(@, user_input) ]
        ELSE pc

\* memory.py:30-62  the patient_context after _extract_medical_info(user_input)
extract_medical_info(pc, user_input, now) ==
    LET user_lower == Lower(user_input)
        m == severity_match(user_lower)
    IN  [ pc EXCEPT
            !.symptoms = SymptomsAfter(@, user_input, user_lower),
            !.timeline =
                IF AnyKeyword(user_lower, time_keywords)
                THEN Append(@, user_input) ELSE @,
            !.severity_scores =
                IF m # None THEN DictPut(@, isoformat(now), PyStr(m)) ELSE @,
            !.medications =
                IF AnyKeyword(user_lower, med_keywords)
                THEN Append(@, user_input) ELSE @,
            !.allergies =
                IF AnyKeyword(user_lower, allergy_keywords)
                THEN Append(@, user_input) ELSE @ ]

\* memory.py:20-22  MedicalMemoryManager(k)
NewMemoryManager(k, now) ==
    [ k |-> k, messages |-> << >>, patient_context |-> EmptyContext(now) ]

\* memory.py:24-28 with the fact extractor run on the assistant text as well
add_interaction_scanning_reply(mm, human_input, ai_response, now) ==
    [ mm EXCEPT
        !.messages = @ \o << HumanMessage(human_input), AIMessage(ai_response) >>,
        !.patient_context = extract_medical_info(
                                extract_medical_info(@, human_input, now), ai_response, now) ]

\* memory.py:24-28.  chat_memory.add_user_message / add_ai_message append to
\* chat_memory.messages; the window size k is applied by the library only
\* when the buffer is loaded through load_memory_variables, which the program
\* never calls
add_interaction(mm, human_input, ai_response, now) ==
    [ mm EXCEPT
        !.messages = @ \o << HumanMessage(human_input), AIMessage(ai_response) >>,
        !.patient_context = extract_medical_info(@, human_input, now) ]

\* memory.py:87-99 without the clear() of line 90
reset_session_keeping_messages(mm, now) ==
    [ mm EXCEPT !.patient_context = EmptyContext(now) ]

\* memory.py:87-99
reset_session(mm, now) ==
    [ mm EXCEPT !.messages = << >>, !.patient_context = EmptyContext(now) ]

\* memory.py:64-73 with [-3:] for [-6:]: three messages for three exchanges
get_memory_context_last3(mm) ==
    LET messages == LastN(mm.messages, 3)
        line(msg) == IF msg.type = "human"
                     THEN << "Patient: " >> \o msg.content
                     ELSE << "Doctor: " >> \o msg.content
    IN  Concat([ i \in 1..Len(messages) |->
                   IF i = 1 THEN line(messages[i])
                   ELSE << "\n" >> \o line(messages[i]) ])

\* memory.py:64-73
get_memory_context(mm) ==
    LET messages == LastN(mm.messages, 6)
        line(msg) == IF msg.type = "human"
                     THEN << "Patient: " >> \o msg.content
                     ELSE << "Doctor: " >> \o msg.content
    IN  Concat([ i \in 1..Len(messages) |->
                   IF i = 1 THEN line(messages[i])
                   ELSE << "\n" >> \o line(messages[i]) ])

\* memory.py:77-84 with [:3] for [-3:]: the first symptoms, not the last
patient_summary_dict_first3(mm) ==
    [ conversation_turns |-> Len(mm.messages) \div 2,
      key_symptoms       |-> SubSeq(mm.patient_context.symptoms, 1,
                                    IF Len(mm.patient_context.symptoms) < 3
                                    THEN Len(mm.patient_context.symptoms) ELSE 3),
      timeline_info      |-> LastN(mm.patient_context.timeline, 2),
      medications        |-> mm.patient_context.medications,
      allergies          |-> mm.patient_context.allergies,
      severity_scores    |-> mm.patient_context.severity_scores ]

\* memory.py:77-84  the dict that get_patient_summary serialises
patient_summary_dict(mm) ==
    [ conversation_turns |-> Len(mm.messages) \div 2,
      key_symptoms       |-> LastN(mm.patient_context.symptoms, 3),
      timeline_info      |-> LastN(mm.patient_context.timeline, 2),
      medications        |-> mm.patient_context.medications,
      allergies          |-> mm.patient_context.allergies,
      severity_scores    |-> mm.patient_context.severity_scores ]

\* the JSON text of one character of a str
JsonChar(c) ==
    CASE c = "\"" -> << "\\", "\"" >>
      [] c = "\\" -> << "\\", "\\" >>
      [] c = "\n" -> << "\\", "n" >>
      [] c = "\r" -> << "\\", "r" >>
      [] c = "\t" -> << "\\", "t" >>
      [] c = "\f" -> << "\\", "f" >>
      [] OTHER    -> << c >>

JsonStr(s) ==
    << "\"" >> \o Concat([ i \in 1..Len(s) |-> JsonChar(s[i]) ]) \o << "\"" >>

\* a list of str under indent=2, one level below the top
JsonList(list) ==
    IF list = << >> THEN << "[", "]" >>
    ELSE << "[" >>
         \o Concat([ i \in 1..Len(list) |->
                (IF i = 1 THEN << "\n    " >> ELSE << ",", "\n    " >>)
                \o JsonStr(list[i]) ])
         \o << "\n  ", "]" >>

\* a str or int value
JsonValue(v) == IF v.type = "str" THEN JsonStr(v.value) ELSE << ToString(v.value) >>

\* a dict under indent=2, one level below the top
JsonDict(d) ==
    IF d = << >> THEN << "{", "}" >>
    ELSE << "{" >>
         \o Concat([ i \in 1..Len(d) |->
                (IF i = 1 THEN << "\n    " >> ELSE << ",", "\n    " >>)
                \o JsonStr(d[i].key) \o << ": " >> \o JsonValue(d[i].value) ])
         \o << "\n  ", "}" >>

\* memory.py:85  json.dumps(summary, indent=2)
json_dumps(summary) ==
    << "{", "\n  ", "\"conversation_turns\": ", ToString(summary.conversation_turns), ",",
       "\n  ", "\"key_symptoms\": " >> \o JsonList(summary.key_symptoms) \o << ",",
       "\n  ", "\"timeline_info\": " >> \o JsonList(summary.timeline_info) \o << ",",
       "\n  ", "\"medications\": " >> \o JsonList(summary.medications) \o << ",",
       "\n  ", "\"allergies\": " >> \o JsonList(summary.allergies) \o << ",",
       "\n  ", "\"severity_scores\": " >> \o JsonDict(summary.severity_scores) \o
    << "\n", "}" >>

\* memory.py:75-85 with the lists cut in place (del list[:-3], del list[:-2])
get_patient_summary_cutting(mm) ==
    [ value |-> json_dumps(patient_summary_dict(mm)),
      mm    |-> [ mm EXCEPT !.patient_context.symptoms = LastN(@, 3),
                            !.patient_context.timeline = LastN(@, 2) ] ]

\* memory.py:75-85: what get_patient_summary returns, and the manager it leaves
get_patient_summary(mm) ==
    [ value |-> json_dumps(patient_summary_dict(mm)), mm |-> mm ]

-----------------------------------------------------------------------------
(* model.py: ModelManager *)

\* model.py:19  the loaded genai.GenerativeModel
GenerativeModel == << "GenerativeModel" >>

\* the texts generate_content returns in the model
ModelTexts == { << "o", "k" >>, << "r", "e", "s", "t" >> }

\* model.py:60  the text generate returns when generate_content raised
GENERATE_APOLOGY == << "I apologize, but I encountered an error processing your request. Please try again or rephrase your question." >>

\* model.py:25  the text of the exception load raises
LOAD_ERROR == << "Failed to initialize Gemini API. Please check your API key. Error: ..." >>

\* model.py:27  the arguments of a call generate(prompt, max_new_tokens,
\* temperature), with top_p left at its default
GenerateCall(prompt, max_new_tokens, temperature) ==
    [ prompt |-> prompt, max_new_tokens |-> max_new_tokens,
      temperature |-> temperature, top_p |-> "0.9" ]

\* model.py:27-60  every way a call of generate can end for the manager mgr:
\*   load raises (only while no model is loaded) and the exception leaves generate;
\*   generate_content raises, the handler of line 58 returns GENERATE_APOLOGY;
\*   generate_content returns a text.
\* degraded: the backend did not deliver a usable text
generate(mgr) ==
    { [ raised |-> TRUE, degraded |-> TRUE, text |-> LOAD_ERROR, mgr |-> mgr ] : x \in
        IF mgr.model = None THEN {1} ELSE {} }
    \cup
    { [ raised |-> FALSE, degraded |-> TRUE, text |-> GENERATE_APOLOGY,
        mgr |-> [mgr EXCEPT !.model = GenerativeModel] ] }
    \cup
    { [ raised |-> FALSE, degraded |-> FALSE, text |-> t,
        mgr |-> [mgr EXCEPT !.model = GenerativeModel] ] : t \in ModelTexts }

-----------------------------------------------------------------------------
(* interface.py: the HTML around a chat message *)

\* interface.py:34-39  _format_message up to and including the opening tag of
\* the message cell
HTML_HEAD == "<table ...><tr ...><td ...>...</td></tr><tr ...><td class=\"message-text\" style=\"...\">"

\* interface.py:39
TD_CLOSE == << "<", "/", "t", "d", ">" >>

\* interface.py:40-41
HTML_TAIL == "\n</tr>\n</table>"

\* interface.py:32-41
format_message(text) == << HTML_HEAD >> \o text \o TD_CLOSE \o << HTML_TAIL >>

\* interface.py:43-48.  The pattern of line 47 is searched for the opening tag
\* of the message cell (one element here, so a typed text never holds it) and,
\* from there, the first closing tag
extract_text(formatted_text) ==
    IF formatted_text = None THEN << "N", "o", "n", "e" >>
    ELSE
    LET f == formatted_text
        opens == { i \in 1..Len(f) : f[i] = HTML_HEAD }
        closes(i) == { j \in (i + 1)..Len(f) :
                         /\ j + 4 <= Len(f)
                         /\ SubSeq(f, j, j + 4) = TD_CLOSE }
        found == { i \in opens : closes(i) # {} }
    IN  IF found = {} THEN f
        ELSE LET i == Min(found)
             IN  Strip(SubSeq(f, i + 1, Min(closes(i)) - 1))

-----------------------------------------------------------------------------
(* handlers.py *)

\* handlers.py:57  the first turn that is not an information-gathering turn
SummaryTurn == 4

\* handlers.py:57 with == for >=: the summary is given once
PhaseOfOneShot(turn) == IF turn = SummaryTurn THEN "SUMMARY" ELSE "GATHERING"

\* handlers.py:57 with <= for <
PhaseOfLate(turn) == IF turn <= SummaryTurn THEN "GATHERING" ELSE "SUMMARY"

\* handlers.py:57
PhaseOf(turn) == IF turn < SummaryTurn THEN "GATHERING" ELSE "SUMMARY"

\* prompts.py:1-15
CONSULTATION_PROMPT == << "You are a professional virtual doctor. ... Always be professional and thorough." >>

\* handlers.py:81
SUMMARY_INSTRUCTION == << "\n\nNow provide a comprehensive summary of all the information gathered. Include assessment of severity and when professional care may be needed." >>

\* prompts.py:18-28 and handlers.py:91-93:
\* MEDICINE_PROMPT.format(patient_info=full_patient_info, memory_context=memory_context)
medicine_prompt(patient_summary, summary, memory_context) ==
    << "You are a specialized medical assistant. ... Patient information: ",
       "Patient Summary: " >> \o patient_summary
    \o << "\n\nDetailed Assessment: " >> \o summary
    \o << "\n\nPrevious conversation context: " >> \o memory_context

\* handlers.py:61, 87, 96  max_new_tokens of the three calls of generate
GATHERING_TOKENS == 256

SUMMARY_TOKENS == 500

MEDICINE_TOKENS == 400

\* handlers.py:61, 87, 96  temperature=0.7
TEMPERATURE == "0.7"

\* handlers.py:31-34 with the pairs taken newest first
HistoryLinesReversed(recent_history) ==
    Concat([ i \in 1..Len(recent_history) |->
        LET e == recent_history[Len(recent_history) + 1 - i]
        IN  << "Patient: " >> \o e[1] \o << "\n" >>
            \o (IF e[2] # None /\ e[2] # << >>
                THEN << "Doctor: " >> \o e[2] \o << "\n" >> ELSE << >>) ])

\* handlers.py:31-34
HistoryLines(recent_history) ==
    Concat([ i \in 1..Len(recent_history) |->
        LET e == recent_history[i]
        IN  << "Patient: " >> \o e[1] \o << "\n" >>
            \o (IF e[2] # None /\ e[2] # << >>
                THEN << "Doctor: " >> \o e[2] \o << "\n" >> ELSE << >>) ])

\* handlers.py:13-40, with the memory manager mm as the global memory_manager
build_gemini_prompt(mm, system_prompt, history, user_input) ==
    LET memory_context == get_memory_context(mm)
        recent_history == IF Len(history) > 3 THEN LastN(history, 3) ELSE history
    IN  system_prompt \o << "\n\n" >>
        \o (IF memory_context # << >>
            THEN << "Previous conversation context:\n" >> \o memory_context \o << "\n\n" >>
            ELSE << >>)
        \o (IF recent_history # << >>
            THEN << "Recent conversation:\n" >> \o HistoryLines(recent_history) \o << "\n" >>
            ELSE << >>)
        \o << "Patient: " >> \o user_input \o << "\n\nDoctor:" >>

\* handlers.py:116-120
error_message(e) ==
    << "I apologize, but I encountered an error processing your request. This could be due to API connectivity issues. Please try again in a moment. Error details: " >> \o e

SUMMARY_HEADER == "**COMPREHENSIVE MEDICAL SUMMARY:**\n"

MEDICINE_HEADER == "\n\n**MEDICATION AND HOME CARE SUGGESTIONS:**\n"

CONTEXT_HEADER == "\n\n**PATIENT CONTEXT SUMMARY:**\n"

DISCLAIMER == "\n\n**IMPORTANT DISCLAIMER:** This is AI-generated advice for informational purposes only. ..."

\* handlers.py:100-107 with the two generated texts under each other's heading
final_response_swapped(summary, medicine_suggestions, patient_summary) ==
    << SUMMARY_HEADER >> \o medicine_suggestions \o << MEDICINE_HEADER >> \o summary
    \o << CONTEXT_HEADER >> \o patient_summary \o << DISCLAIMER >>

\* handlers.py:100-107
final_response(summary, medicine_suggestions, patient_summary) ==
    << SUMMARY_HEADER >> \o summary \o << MEDICINE_HEADER >> \o medicine_suggestions
    \o << CONTEXT_HEADER >> \o patient_summary \o << DISCLAIMER >>

\* handlers.py:133-144
reset_msg == << "**New consultation started.** ... I'll ask follow-up questions to better understand your situation." >>

-----------------------------------------------------------------------------
(* The state machine *)

\* the browser sessions (each holds its own gr.Chatbot value)
Sessions == {1, 2}

\* the event chains that can be under way at once (interface.py:328-338: a
\* handler that takes the input, then bot_response_handler)
Chains == {1, 2, 3}

\* the session whose page started the chain: chains 1 and 3 belong to
\* session 1, chain 2 to session 2
SessionOf(c) == IF c = 2 THEN 2 ELSE 1

\* memory.py:20  the default window size
DefaultK == 10

\* bool(x) of a str or None
Truthy(x) == x # None /\ x # << >>

Idle == [pc |-> "idle"]

\* a chain is inside respond, waiting for generate to return
InRespond(c) == c.pc \in {"gathering", "summary", "medicine"}

\* interface.py:145-148
RawHistory(history) ==
    LET kept == SelectSeq(SubSeq(history, 1, Len(history) - 1),
                          LAMBDA e : Truthy(e[1]) /\ Truthy(e[2]))
    IN  [ i \in 1..Len(kept) |-> << extract_text(kept[i][1]), extract_text(kept[i][2]) >> ]

\* interface.py:24-29  the flags of a new VoiceEnhancedInterface
NewInterface ==
    [ is_bot_speaking |-> FALSE, is_recording |-> FALSE, conversation_mode |-> FALSE ]

\* the threads that can run speak_text or play_worker at once
Threads == 1..MaxThreads

\* a thread that is not running
NoThread == [pc |-> "none"]

\* interface.py:164-168, 255  threading.Thread(target=self.speak_text, ...).start().
\* The text to speak is not kept: the audio fetched for it does not depend on
\* it in the model
StartSpeakText(th) ==
    [ th EXCEPT ![Min({ t \in Threads : th[t].pc = "none" })] = [pc |-> "speak_text"] ]

\* interface.py:127-132: user_message_handler clears is_bot_speaking for a
\* message that is not blank.  sd.stop() ends what sd.play started; it has no
\* hold on the OutputStream of a play_worker
InterruptSpeech(user_message, inst) ==
    IF Strip(user_message) = << >> THEN inst
    ELSE [inst EXCEPT !.is_bot_speaking = FALSE]

\* interface.py:126-136: the history user_message_handler returns
AfterUserMessage(user_message, history) ==
    IF Strip(user_message) = << >>
    THEN history
    ELSE Append(history, << format_message(user_message), None >>)

\* interface.py:126-136 as the first handler of the chain c (lines 328, 331):
\* it is given the Chatbot value of the page, and what it returns becomes that
\* value
user_message_handler(c, user_message) ==
    /\ call[c].pc = "idle"
    /\ chat_history' = [chat_history EXCEPT ![SessionOf(c)] = AfterUserMessage(user_message, @)]
    /\ call' = [call EXCEPT ![c] = [pc |-> "then"]]
    /\ interface_instance' = InterruptSpeech(user_message, interface_instance)
    /\ ret' = [op |-> "user_message_handler", session |-> SessionOf(c),
               value |-> << << >>, chat_history'[SessionOf(c)] >>]
    /\ UNCHANGED << conversation_turns, memory_manager, model_manager, clock,
                    threads, respond_calls, turns_since_reset, session_turns >>

\* interface.py:191
RECORDING_MSG == << "Recording... Click mic again to stop." >>

\* interface.py:204
VOICE_ERROR == << << "Voice input error" >>, << "Sorry, I couldn't hear clearly." >> >>

\* interface.py:184-191: the mic button while nothing is recorded, as the first
\* handler of the chain c (line 336)
handle_voice_input_start(c) ==
    /\ call[c].pc = "idle"
    /\ ~interface_instance.is_recording
    /\ interface_instance' = [interface_instance EXCEPT !.is_recording = TRUE]
    /\ call' = [call EXCEPT ![c] = [pc |-> "then"]]
    /\ ret' = [op |-> "handle_voice_input", session |-> SessionOf(c),
               value |-> << RECORDING_MSG, chat_history[SessionOf(c)] >>]
    /\ UNCHANGED << conversation_turns, memory_manager, model_manager, clock,
                    chat_history, threads, respond_calls, turns_since_reset, session_turns >>

\* interface.py:192-196: the mic button while recording: the handler is given
\* the Chatbot value, clears the flag and waits for the recording thread
handle_voice_input_stop(c) ==
    /\ call[c].pc = "idle"
    /\ interface_instance.is_recording
    /\ interface_instance' = [interface_instance EXCEPT !.is_recording = FALSE]
    /\ call' = [call EXCEPT ![c] = [pc |-> "join", chat_history |-> chat_history[SessionOf(c)]]]
    /\ ret' = [op |-> "join", session |-> SessionOf(c)]
    /\ UNCHANGED << conversation_turns, memory_manager, model_manager, clock,
                    chat_history, threads, respond_calls, turns_since_reset, session_turns >>

\* interface.py:197-205: the wait is over, and _last_transcript is the text
\* the recording thread stored (lines 207-237), "" when it stored none
handle_voice_input_joined(c, transcript) ==
    /\ call[c].pc = "join"
    /\ chat_history' = [chat_history EXCEPT ![SessionOf(c)] =
          IF transcript # << >>
          THEN AfterUserMessage(transcript, call[c].chat_history)
          ELSE Append(call[c].chat_history, VOICE_ERROR)]
    /\ call' = [call EXCEPT ![c] = [pc |-> "then"]]
    /\ interface_instance' = IF transcript # << >>
                             THEN InterruptSpeech(transcript, interface_instance)
                             ELSE interface_instance
    /\ ret' = [op |-> "handle_voice_input", session |-> SessionOf(c),
               value |-> << << >>, chat_history'[SessionOf(c)] >>]
    /\ UNCHANGED << conversation_turns, memory_manager, model_manager, clock,
                    threads, respond_calls, turns_since_reset, session_turns >>

\* handlers.py:43-61 and 72-87: respond(message, chat_history) up to its first
\* call of generate, in the chain c
respond_enter(c, message, raw_history, history) ==
    LET turn == conversation_turns + 1
        ps   == get_patient_summary(memory_manager)
    IN  /\ conversation_turns' = turn
        /\ respond_calls' = respond_calls + 1
        /\ turns_since_reset' = turns_since_reset + 1
        /\ session_turns' = [session_turns EXCEPT ![SessionOf(c)] = @ + 1]
        /\ IF PhaseOf(turn) = "GATHERING"
           THEN /\ call' = [call EXCEPT ![c] =
                      [ pc |-> "gathering", chat_history |-> history, message |-> message,
                        raw_history |-> raw_history, turn |-> turn, degraded |-> FALSE,
                        patient_summary |-> << >>, memory_context |-> << >>,
                        summary |-> << >>, responses |-> << >>,
                        requests |-> << GenerateCall(
                            build_gemini_prompt(memory_manager, CONSULTATION_PROMPT,
                                                raw_history, message),
                            GATHERING_TOKENS, TEMPERATURE) >> ]]
                /\ UNCHANGED memory_manager
           ELSE /\ call' = [call EXCEPT ![c] =
                      [ pc |-> "summary", chat_history |-> history, message |-> message,
                        raw_history |-> raw_history, turn |-> turn, degraded |-> FALSE,
                        patient_summary |-> ps.value,
                        memory_context |-> get_memory_context(ps.mm),
                        summary |-> << >>, responses |-> << >>,
                        requests |-> << GenerateCall(
                            build_gemini_prompt(ps.mm, CONSULTATION_PROMPT \o SUMMARY_INSTRUCTION,
                                                raw_history, message),
                            SUMMARY_TOKENS, TEMPERATURE) >> ]]
                /\ memory_manager' = ps.mm
        /\ ret' = [op |-> "generate", session |-> SessionOf(c)]
        /\ UNCHANGED << model_manager, clock, chat_history, interface_instance, threads >>

\* interface.py:138-150: bot_response_handler, given the Chatbot value of the
\* page, up to the call of respond
bot_response_handler(c) ==
    /\ call[c].pc = "then"
    /\ LET history == chat_history[SessionOf(c)]
       IN  IF history = << >> \/ history[Len(history)][2] # None
           THEN /\ call' = [call EXCEPT ![c] = Idle]
                /\ ret' = [op |-> "bot_response_handler", session |-> SessionOf(c),
                           value |-> history]
                /\ UNCHANGED << conversation_turns, memory_manager, model_manager, clock,
                                chat_history, interface_instance, threads, respond_calls,
                                turns_since_reset, session_turns >>
           ELSE respond_enter(c, extract_text(history[Len(history)][1]),
                              RawHistory(history), history)

\* interface.py:156-168: with conversation mode on, bot_response_handler
\* clears is_bot_speaking and starts a thread that runs speak_text
auto_speak ==
    IF interface_instance.conversation_mode
    THEN /\ interface_instance' = [interface_instance EXCEPT !.is_bot_speaking = FALSE]
         /\ threads' = StartSpeakText(threads)
    ELSE UNCHANGED << interface_instance, threads >>

\* handlers.py:67-69, 110-112, 121-122 without the append of line 121: the
\* failure path returns the history as it was given
respond_return_bare_failure(c, response, reply, degraded) ==
    LET l       == call[c]
        updated == IF response = None THEN l.raw_history
                   ELSE Append(l.raw_history, << l.message, reply >>)
        n       == Len(l.chat_history)
    IN  /\ chat_history' = [chat_history EXCEPT ![SessionOf(c)] =
              [l.chat_history EXCEPT ![n] = << l.chat_history[n][1],
                                               format_message(reply) >>]]
        /\ call' = [call EXCEPT ![c] = Idle]
        /\ ret' = [ op |-> "respond", session |-> SessionOf(c), message |-> l.message,
                    chat_history |-> l.raw_history, value |-> << << >>, updated >>,
                    turn |-> l.turn, requests |-> l.requests,
                    responses |-> IF response = None THEN l.responses
                                  ELSE Append(l.responses, response),
                    patient_summary |-> l.patient_summary,
                    phase |-> IF l.pc = "gathering" THEN "GATHERING" ELSE "SUMMARY",
                    degraded |-> degraded ]
        /\ auto_speak

\* handlers.py:67-69, 110-112, 121-122 and interface.py:150-170: respond appends
\* (message, reply) and returns; bot_response_handler puts the reply into the
\* last entry of the history it was given and returns that history, which
\* becomes the Chatbot value of the page.  response is the text the last call
\* of generate returned, None when it raised
respond_return(c, response, reply, degraded) ==
    LET l       == call[c]
        updated == Append(l.raw_history, << l.message, reply >>)
        raw_bot_response == updated[Len(updated)][2]
        n       == Len(l.chat_history)
    IN  /\ chat_history' = [chat_history EXCEPT ![SessionOf(c)] =
              [l.chat_history EXCEPT ![n] = << l.chat_history[n][1],
                                               format_message(raw_bot_response) >>]]
        /\ call' = [call EXCEPT ![c] = Idle]
        /\ ret' = [ op |-> "respond", session |-> SessionOf(c), message |-> l.message,
                    chat_history |-> l.raw_history, value |-> << << >>, updated >>,
                    turn |-> l.turn, requests |-> l.requests,
                    responses |-> IF response = None THEN l.responses
                                  ELSE Append(l.responses, response),
                    patient_summary |-> l.patient_summary,
                    phase |-> IF l.pc = "gathering" THEN "GATHERING" ELSE "SUMMARY",
                    degraded |-> degraded ]
        /\ auto_speak

\* memory.py:24-28 as called from respond: the manager and the clock afterwards
Record(message, response) ==
    /\ memory_manager' = add_interaction(memory_manager, message, response, clock)
    /\ clock' = IF ReadsClock(message) THEN clock + 1 ELSE clock

\* handlers.py:61-69: generate returns in the gathering branch
respond_gathering(c, g) ==
    /\ call[c].pc = "gathering"
    /\ g \in generate(model_manager)
    /\ ~g.raised
    /\ model_manager' = g.mgr
    /\ Record(call[c].message, g.text)
    /\ respond_return(c, g.text, g.text, g.degraded)
    /\ UNCHANGED << conversation_turns, respond_calls, turns_since_reset, session_turns >>

\* handlers.py:87-96: generate returns the summary; the second call is made
respond_summary(c, g) ==
    /\ call[c].pc = "summary"
    /\ g \in generate(model_manager)
    /\ ~g.raised
    /\ model_manager' = g.mgr
    /\ call' = [call EXCEPT ![c] =
          [@ EXCEPT !.pc = "medicine", !.summary = g.text, !.degraded = g.degraded,
                    !.responses = Append(@, g.text),
                    !.requests = Append(@, GenerateCall(
                        medicine_prompt(call[c].patient_summary, g.text, call[c].memory_context),
                        MEDICINE_TOKENS, TEMPERATURE))]]
    /\ ret' = [op |-> "generate", session |-> SessionOf(c)]
    /\ UNCHANGED << conversation_turns, memory_manager, clock, chat_history,
                    interface_instance, threads, respond_calls, turns_since_reset, session_turns >>

\* handlers.py:96-112 with the patient summary of the reply taken at line 99,
\* from a memory that already holds the utterance of the turn
respond_medicine_late_snapshot(c, g) ==
    /\ call[c].pc = "medicine"
    /\ g \in generate(model_manager)
    /\ ~g.raised
    /\ model_manager' = g.mgr
    /\ LET recorded == add_interaction(memory_manager, call[c].message, call[c].summary, clock)
           final == final_response(call[c].summary, g.text,
                                   get_patient_summary(recorded).value)
       IN  /\ Record(call[c].message, final)
           /\ respond_return(c, g.text, final, call[c].degraded \/ g.degraded)
    /\ UNCHANGED << conversation_turns, respond_calls, turns_since_reset, session_turns >>

\* handlers.py:96-112: generate returns the medicine suggestions
respond_medicine(c, g) ==
    /\ call[c].pc = "medicine"
    /\ g \in generate(model_manager)
    /\ ~g.raised
    /\ model_manager' = g.mgr
    /\ LET final == final_response(call[c].summary, g.text, call[c].patient_summary)
       IN  /\ Record(call[c].message, final)
           /\ respond_return(c, g.text, final, call[c].degraded \/ g.degraded)
    /\ UNCHANGED << conversation_turns, respond_calls, turns_since_reset, session_turns >>

\* handlers.py:114-122 with the turn that failed taken back from the counter
respond_except_uncounting(c, g) ==
    /\ InRespond(call[c])
    /\ g \in generate(model_manager)
    /\ g.raised
    /\ model_manager' = g.mgr
    /\ respond_return(c, None, error_message(g.text), TRUE)
    /\ conversation_turns' = IF conversation_turns > 0 THEN conversation_turns - 1 ELSE 0
    /\ UNCHANGED << memory_manager, clock, respond_calls, turns_since_reset, session_turns >>

\* handlers.py:114-122: generate raises, in either branch
respond_except(c, g) ==
    /\ InRespond(call[c])
    /\ g \in generate(model_manager)
    /\ g.raised
    /\ model_manager' = g.mgr
    /\ respond_return(c, None, error_message(g.text), TRUE)
    /\ UNCHANGED << conversation_turns, memory_manager, clock,
                    respond_calls, turns_since_reset, session_turns >>

\* handlers.py:125-147, from the reset button of session s (interface.py:341)
reset_chat(s) ==
    /\ conversation_turns' = 0
    /\ memory_manager' = reset_session(memory_manager, clock)
    /\ clock' = clock + 1
    /\ chat_history' = [chat_history EXCEPT ![s] = << << None, reset_msg >> >>]
    /\ turns_since_reset' = 0
    /\ session_turns' = [session_turns EXCEPT ![s] = 0]
    /\ ret' = [op |-> "reset_chat", session |-> s, value |-> << chat_history'[s], << >> >>]
    /\ UNCHANGED << model_manager, call, interface_instance, threads, respond_calls >>

-----------------------------------------------------------------------------
(* interface.py: speaking a text.  speak_text runs in a thread of its own
   (lines 164-168 and 255) and hands the playback to a second thread,
   play_worker, which takes the place of the first in the model: speak_text
   returns as soon as it has started it *)

\* what no step of a speech thread changes
SpeechFrame ==
    UNCHANGED << conversation_turns, memory_manager, model_manager, clock,
                 chat_history, call, respond_calls, turns_since_reset, session_turns >>

\* interface.py:262-264
toggle_conversation_mode ==
    /\ interface_instance' = [interface_instance EXCEPT !.conversation_mode = ~@]
    /\ ret' = [op |-> "toggle_conversation_mode",
               value |-> IF interface_instance'.conversation_mode
                         THEN << "Conversation Mode: ON" >>
                         ELSE << "Conversation Mode: OFF" >>]
    /\ UNCHANGED threads
    /\ SpeechFrame

\* the messages of a Chatbot value that can be clicked
Cells(history) ==
    { history[i][j] : i \in 1..Len(history), j \in 1..2 } \ { None }

\* interface.py:244-257  a click on the message value of the page of session s
speak_selected_message(s, value) ==
    /\ value \in Cells(chat_history[s])
    /\ threads' = IF extract_text(value) # << >> THEN StartSpeakText(threads) ELSE threads
    /\ ret' = [op |-> "speak_selected_message", session |-> s, value |-> None]
    /\ UNCHANGED interface_instance
    /\ SpeechFrame

\* interface.py:83-90: the thread t enters speak_text: a playback under way
\* is told to stop, and nothing is spoken; otherwise the audio is asked for
speak_text_enter(t) ==
    /\ threads[t].pc = "speak_text"
    /\ IF interface_instance.is_bot_speaking
       THEN /\ interface_instance' = [interface_instance EXCEPT !.is_bot_speaking = FALSE]
            /\ threads' = [threads EXCEPT ![t] = NoThread]
       ELSE /\ threads' = [threads EXCEPT ![t] = [pc |-> "fetch"]]
            /\ UNCHANGED interface_instance
    /\ ret' = [op |-> "speak_text", thread |-> t]
    /\ SpeechFrame

\* what the request of _fetch_tts_bytes (interface.py:66-77) may bring: nothing,
\* bytes that sf.read cannot read, or audio of some blocks of 4096 frames
Audio ==
    { [kind |-> "None", blocks |-> 0], [kind |-> "unreadable", blocks |-> 0] }
    \cup { [kind |-> "audio", blocks |-> n] : n \in 1..MaxBlocks }

\* interface.py:90-122: _fetch_tts_bytes has returned to the thread t
speak_text_fetched(t, audio) ==
    /\ threads[t].pc = "fetch"
    /\ audio \in Audio
    /\ CASE audio.kind = "None" ->
               /\ threads' = [threads EXCEPT ![t] = NoThread]
               /\ UNCHANGED interface_instance
         [] audio.kind = "unreadable" ->
               /\ threads' = [threads EXCEPT ![t] = NoThread]
               /\ interface_instance' = [interface_instance EXCEPT !.is_bot_speaking = FALSE]
         [] audio.kind = "audio" ->
               /\ threads' = [threads EXCEPT ![t] =
                      [pc |-> "play_worker", i |-> 0, blocks |-> audio.blocks]]
               /\ interface_instance' = [interface_instance EXCEPT !.is_bot_speaking = TRUE]
    /\ ret' = [op |-> "speak_text", thread |-> t]
    /\ SpeechFrame

\* interface.py:103-110: play_worker tests the condition of its loop (line 106)
\* and either begins to write the next block or leaves the loop
play_worker_test(t) ==
    /\ threads[t].pc = "play_worker"
    /\ threads' = [threads EXCEPT ![t].pc =
          IF interface_instance.is_bot_speaking /\ threads[t].i < threads[t].blocks
          THEN "write" ELSE "finally"]
    /\ ret' = [op |-> "play_worker", thread |-> t]
    /\ UNCHANGED interface_instance
    /\ SpeechFrame

\* interface.py:108-109: stream.write has taken the block
play_worker_written(t) ==
    /\ threads[t].pc = "write"
    /\ threads' = [threads EXCEPT ![t].pc = "play_worker", ![t].i = @ + 1]
    /\ ret' = [op |-> "play_worker", thread |-> t]
    /\ UNCHANGED interface_instance
    /\ SpeechFrame

\* interface.py:111-112: opening the stream or writing to it raised
play_worker_raised(t) ==
    /\ threads[t].pc \in { "play_worker", "write" }
    /\ threads' = [threads EXCEPT ![t].pc = "finally"]
    /\ ret' = [op |-> "play_worker", thread |-> t]
    /\ UNCHANGED interface_instance
    /\ SpeechFrame

\* interface.py:113-115: play_worker ends
play_worker_finally(t) ==
    /\ threads[t].pc = "finally"
    /\ interface_instance' = [interface_instance EXCEPT !.is_bot_speaking = FALSE]
    /\ threads' = [threads EXCEPT ![t] = NoThread]
    /\ ret' = [op |-> "play_worker", thread |-> t]
    /\ SpeechFrame

-----------------------------------------------------------------------------
(* Specifications *)

\* the texts typed into the message box
PAIN == << "p", "a", "i", "n" >>

PILLS_TODAY == << "p", "i", "l", "l", "s", " ", "t", "o", "d", "a", "y" >>

BLANK == << " " >>

CLOSING_TAG == << "<", "/", "t", "d", ">" >>

PAIN_7 == << "P", "a", "i", "n", " ", "7" >>

SEVEN_PAIN == << "7", " ", "p", "a", "i", "n" >>

HEADACHE_ALLERGIC ==
    << "H", "e", "a", "d", "a", "c", "h", "e", ",", " ",
       "a", "l", "l", "e", "r", "g", "i", "c" >>

HELLO == << "h", "e", "l", "l", "o" >>

\* two lines, typed with Shift+Enter into the message box (interface.py:289-291)
SEVEN_NEWLINE_PAIN == << "7", "\n", "p", "a", "i", "n" >>

TWO_OR_TEN_SCALE ==
    << "2", " ", "o", "r", " ", "1", "0", " ", "S", "c", "a", "l", "e" >>

Typed == { PAIN, BLANK, CLOSING_TAG }

\* the state after the import of handlers.py (lines 8-10) and the page load
InitWith(mm) ==
    /\ conversation_turns = 0
    /\ memory_manager = mm
    /\ model_manager = [model |-> None]
    /\ clock = 1
    /\ chat_history = [s \in Sessions |-> << >>]
    /\ call = [c \in Chains |-> Idle]
    /\ interface_instance = NewInterface
    /\ threads = [t \in Threads |-> NoThread]
    /\ respond_calls = 0
    /\ failures = 0
    /\ turns_since_reset = 0
    /\ session_turns = [s \in Sessions |-> 0]
    /\ ret = [op |-> "import"]

Init == InitWith(NewMemoryManager(DefaultK, 0))

\* a message may still be submitted: the calls of respond made and about to
\* be made stay within MaxTurns
CanSubmit ==
    respond_calls + Cardinality({ c \in Chains : call[c].pc \in {"then", "join"} }) < MaxTurns

Submit(c, user_message) ==
    CanSubmit /\ user_message_handler(c, user_message) /\ UNCHANGED failures

BotResponse(c) == bot_response_handler(c) /\ UNCHANGED failures

Reset(s) == clock < MaxClock /\ reset_chat(s) /\ UNCHANGED failures

\* the text the backend gives to the pending call of the chain c when the
\* call succeeds: one text to the medicine call, the other to the other calls
Answers(c) == IF call[c].pc = "medicine" THEN { << "r", "e", "s", "t" >> }
              ELSE { << "o", "k" >> }

\* the ways the pending call of generate of the chain c may end, within
\* MaxFailures
Outcomes(c) ==
    { g \in generate(model_manager) :
        IF g.degraded THEN failures < MaxFailures ELSE g.text \in Answers(c) }

Counted(g) == failures' = IF g.degraded THEN failures + 1 ELSE failures

Gathering(c) == \E g \in Outcomes(c) : respond_gathering(c, g) /\ Counted(g)

Summary(c) == \E g \in Outcomes(c) : respond_summary(c, g) /\ Counted(g)

Medicine(c) == \E g \in Outcomes(c) : respond_medicine(c, g) /\ Counted(g)

Except(c) == \E g \in Outcomes(c) : respond_except(c, g) /\ Counted(g)

\* one browser session
Next ==
    \/ \E m \in Typed : Submit(1, m)
    \/ BotResponse(1)
    \/ Gathering(1)
    \/ Summary(1)
    \/ Medicine(1)
    \/ Except(1)
    \/ Reset(1)

Spec == Init /\ [][Next]_vars

\* two browser sessions of the one server process
SessionStep(s) ==
    \/ Submit(s, PAIN)
    \/ BotResponse(s)
    \/ Gathering(s)
    \/ Summary(s)
    \/ Medicine(s)
    \/ Except(s)
    \/ Reset(s)

NextSessions == \E s \in Sessions : SessionStep(s)

SpecSessions == Init /\ [][NextSessions]_vars

\* what the recording thread may have stored as the transcript
Transcripts == { << >>, PAIN }

\* the chain c may add an entry to the Chatbot value of its page
CanAppend(c) == CanSubmit /\ Len(chat_history[SessionOf(c)]) < MaxEntries

VoiceStart(c) == CanAppend(c) /\ handle_voice_input_start(c) /\ UNCHANGED failures

VoiceStop(c) == CanAppend(c) /\ handle_voice_input_stop(c) /\ UNCHANGED failures

VoiceJoined(c) ==
    \E transcript \in Transcripts :
        handle_voice_input_joined(c, transcript) /\ UNCHANGED failures

\* one browser session in which a second event chain may start while the
\* first is under way (nothing in the page holds back the message box, the
\* send button or the mic button while a reply is awaited)
ChainStep(c) ==
    \/ CanAppend(c) /\ Submit(c, PAIN)
    \/ VoiceStart(c)
    \/ VoiceStop(c)
    \/ VoiceJoined(c)
    \/ BotResponse(c)
    \/ Gathering(c)
    \/ Summary(c)
    \/ Medicine(c)
    \/ Except(c)

NextChains == \E c \in { c \in Chains : SessionOf(c) = 1 } : ChainStep(c)

SpecChains == Init /\ [][NextChains]_vars

\* a thread can be started
CanSpeak == \E t \in Threads : threads[t].pc = "none"

\* a reply can be spoken when it arrives
CanReply == interface_instance.conversation_mode => CanSpeak

SpeechSubmit == respond_calls < MaxReplies /\ Submit(1, PAIN)

ToggleConversationMode == toggle_conversation_mode /\ UNCHANGED failures

SpeakSelectedMessage ==
    /\ CanSpeak
    /\ \E value \in Cells(chat_history[1]) : speak_selected_message(1, value)
    /\ UNCHANGED failures

SpeakText(t) ==
    /\ \/ speak_text_enter(t)
       \/ \E audio \in Audio : speak_text_fetched(t, audio)
    /\ UNCHANGED failures

PlayWorker(t) ==
    /\ \/ play_worker_test(t)
       \/ play_worker_written(t)
       \/ play_worker_raised(t)
       \/ play_worker_finally(t)
    /\ UNCHANGED failures

\* one browser session whose messages are clicked to be spoken, with the
\* conversation mode switched on and off
NextSpeech ==
    \/ SpeechSubmit
    \/ BotResponse(1)
    \/ CanReply /\ Gathering(1)
    \/ CanReply /\ Except(1)
    \/ ToggleConversationMode
    \/ SpeakSelectedMessage
    \/ \E t \in Threads : SpeakText(t)
    \/ \E t \in Threads : PlayWorker(t)

SpecSpeech == Init /\ [][NextSpeech]_vars

-----------------------------------------------------------------------------
(* A MedicalMemoryManager on its own, built with any window size k *)

\* the user texts recorded
MemoryInputs ==
    { PAIN, PILLS_TODAY, PAIN_7, SEVEN_PAIN, HEADACHE_ALLERGIC, HELLO,
      SEVEN_NEWLINE_PAIN, TWO_OR_TEN_SCALE }

\* the assistant texts recorded
MemoryReplies == { << "o", "k" >> }

InitMemory == \E k \in 1..MaxK : InitWith(NewMemoryManager(k, 0))

Untouched ==
    UNCHANGED << conversation_turns, model_manager, chat_history, call,
                 interface_instance, threads, respond_calls, failures, turns_since_reset,
                 session_turns >>

\* memory.py:24-28 called on its own
RecordInteraction(human_input, ai_response) ==
    /\ Record(human_input, ai_response)
    /\ ret' = [op |-> "add_interaction", human_input |-> human_input, value |-> None]
    /\ Untouched

AddInteraction(human_input, ai_response) ==
    /\ Len(memory_manager.messages) < 2 * MaxInteractions
    /\ RecordInteraction(human_input, ai_response)

GetPatientSummary ==
    LET r == get_patient_summary(memory_manager)
    IN  /\ memory_manager' = r.mm
        /\ ret' = [op |-> "get_patient_summary", value |-> r.value]
        /\ UNCHANGED clock
        /\ Untouched

GetMemoryContext ==
    /\ ret' = [op |-> "get_memory_context", value |-> get_memory_context(memory_manager)]
    /\ UNCHANGED << memory_manager, clock >>
    /\ Untouched

ResetSession ==
    /\ clock < MaxClock
    /\ memory_manager' = reset_session(memory_manager, clock)
    /\ clock' = clock + 1
    /\ ret' = [op |-> "reset_session", value |-> None]
    /\ Untouched

NextMemory ==
    \/ \E u \in MemoryInputs : \E a \in MemoryReplies : AddInteraction(u, a)
    \/ GetPatientSummary
    \/ GetMemoryContext
    \/ ResetSession

SpecMemory == InitMemory /\ [][NextMemory]_vars

-----------------------------------------------------------------------------
(* The memory manager of the module (k = 10) over longer runs of fewer texts *)

SummaryInputs == { PAIN, PAIN_7, SEVEN_PAIN, HEADACHE_ALLERGIC, PILLS_TODAY }

NextSummary ==
    \/ \E u \in SummaryInputs :
          /\ Len(memory_manager.messages) < 2 * MaxRecorded
          /\ RecordInteraction(u, << "o", "k" >>)
    \/ GetPatientSummary

SpecSummary == Init /\ [][NextSummary]_vars

-----------------------------------------------------------------------------
(* add_interaction on the memory manager of the module, over assistant texts
   that hold keywords of the fact extractor *)

ReplyInputs == { HELLO, PAIN, PILLS_TODAY }

\* the assistant texts: one without a keyword, and texts with time and
\* medication keywords, a severity and a symptom, a symptom and an allergy
ReplyTexts == { << "o", "k" >>, PILLS_TODAY, SEVEN_PAIN, HEADACHE_ALLERGIC }

NextReplies ==
    \E u \in ReplyInputs : \E a \in ReplyTexts : AddInteraction(u, a)

SpecReplies == Init /\ [][NextReplies]_vars

-----------------------------------------------------------------------------
(* build_gemini_prompt on its own, over the memory manager of the module *)

\* the (user text, assistant text) pairs of the histories: an answered pair,
\* a pair whose assistant text is None, a pair whose assistant text is ""
HistoryPairs == { << PAIN, << "o", "k" >> >>, << HELLO, None >>, << PILLS_TODAY, << >> >> }

Histories == UNION { [1..n -> HistoryPairs] : n \in 0..MaxHistory }

\* a caller (chain 1) about to call build_gemini_prompt with arguments of its
\* choice
InitPrompt ==
    /\ \E k \in 1..MaxK : memory_manager = NewMemoryManager(k, 0)
    /\ \E system_prompt \in { CONSULTATION_PROMPT, CONSULTATION_PROMPT \o SUMMARY_INSTRUCTION } :
       \E history \in Histories : \E user_input \in { PAIN, HELLO } :
          call = [ c \in Chains |->
                     IF c = 1 THEN [ pc |-> "build_gemini_prompt", system_prompt |-> system_prompt,
                                     history |-> history, user_input |-> user_input ]
                     ELSE Idle ]
    /\ conversation_turns = 0
    /\ model_manager = [model |-> None]
    /\ clock = 1
    /\ chat_history = [s \in Sessions |-> << >>]
    /\ interface_instance = NewInterface
    /\ threads = [t \in Threads |-> NoThread]
    /\ respond_calls = 0
    /\ failures = 0
    /\ turns_since_reset = 0
    /\ session_turns = [s \in Sessions |-> 0]
    /\ ret = [op |-> "import"]

BuildGeminiPrompt ==
    LET l == call[1]
    IN  /\ l.pc = "build_gemini_prompt"
        /\ ret' = [ op |-> "build_gemini_prompt", system_prompt |-> l.system_prompt,
                    history |-> l.history, user_input |-> l.user_input,
                    value |-> build_gemini_prompt(memory_manager, l.system_prompt,
                                                  l.history, l.user_input) ]
        /\ UNCHANGED << memory_manager, clock >>
        /\ Untouched

NextPrompt ==
    \/ AddInteraction(PAIN, << "o", "k" >>)
    \/ BuildGeminiPrompt

SpecPrompt == InitPrompt /\ [][NextPrompt]_vars

-----------------------------------------------------------------------------
(* Properties *)

\* the reply respond appended to the history it returned
Reply(r) == r.value[2][Len(r.value[2])][2]

\* summary, medication advice, patient context and disclaimer, in one text
IsCombined(text) ==
    /\ text # << >>
    /\ text[1] = SUMMARY_HEADER
    /\ text[Len(text)] = DISCLAIMER
    /\ \E i, j \in 1..Len(text) :
         i < j /\ text[i] = MEDICINE_HEADER /\ text[j] = CONTEXT_HEADER

IsApology(text) == text = GENERATE_APOLOGY \/ text = error_message(LOAD_ERROR)

NoDuplicates(list) ==
    \A i, j \in 1..Len(list) : list[i] = list[j] => i = j

\* C1: the counter is the number of respond calls since the last reset_chat;
\* a call takes the gathering branch iff the counter it incremented is below 4
\* (the 1st to 3rd call after a reset); no reply of such a call is the combined
\* reply, and from the 4th call on a call that does not raise returns it.
C1_PhaseByTurnCount ==
    /\ conversation_turns = turns_since_reset
    /\ \A c \in Chains :
         InRespond(call[c]) => (call[c].pc = "gathering" <=> call[c].turn < 4)
    /\ ret.op = "respond" =>
         /\ ret.phase = "GATHERING" <=> ret.turn < 4
         /\ ret.turn < 4 => ~IsCombined(Reply(ret))
         /\ ret.turn >= 4 =>
              IsCombined(Reply(ret)) \/ Reply(ret) = error_message(LOAD_ERROR)

\* C1 witness: after a reset_chat, the 4th call returned the combined reply
C1_Witness ==
    /\ clock > 1
    /\ ret.op = "respond" /\ ret.turn = 4 /\ turns_since_reset = 4
    /\ IsCombined(Reply(ret))

\* C2: the stored messages never number more than 2k
C2_WindowBounded ==
    Len(memory_manager.messages) <= 2 * memory_manager.k

\* C3: when a call of generate failed during a turn, respond returns with an
\* apology text as the reply of that turn, and the turn stays counted (the
\* counter is the one the turn set, or 0 after a reset_chat in between)
C3_FailureYieldsApology ==
    (ret.op = "respond" /\ ret.degraded) =>
        /\ IsApology(Reply(ret))
        /\ conversation_turns = ret.turn \/ conversation_turns = 0

\* C4: the step that ends a turn in which a call of generate failed leaves the
\* memory manager (messages and patient_context) as it was
C4_FailureLeavesMemory ==
    [][ \A c \in Chains :
          (InRespond(call[c]) /\ call'[c].pc = "idle" /\ ret'.degraded)
              => memory_manager' = memory_manager ]_vars

\* C5: right after reset_chat the counter is 0, every patient_context list and
\* severity_scores are empty, no message is stored, and the history returned
\* is the welcome message alone
C5_ResetClears ==
    ret.op = "reset_chat" =>
        /\ conversation_turns = 0
        /\ memory_manager.messages = << >>
        /\ memory_manager.patient_context.symptoms = << >>
        /\ memory_manager.patient_context.timeline = << >>
        /\ memory_manager.patient_context.medications = << >>
        /\ memory_manager.patient_context.allergies = << >>
        /\ memory_manager.patient_context.severity_scores = << >>
        /\ ret.value[1] = << << None, reset_msg >> >>

\* C5 witness: reset_chat returned after two turns had been made
C5_Witness ==
    /\ ret.op = "reset_chat"
    /\ respond_calls >= 2
    /\ chat_history[1] = << << None, reset_msg >> >>

\* C6: when bot_response_handler finds a blank message to answer, the step is
\* a no-op: no turn is counted, memory and history stay as they are
C6_BlankIsNoOp ==
    [][ \A c \in Chains :
          LET history == chat_history[SessionOf(c)]
          IN  ( /\ call[c].pc = "then" /\ call'[c].pc # "then"
                /\ history # << >>
                /\ history[Len(history)][2] = None
                /\ Strip(extract_text(history[Len(history)][1])) = << >> )
              => /\ conversation_turns' = conversation_turns
                 /\ memory_manager' = memory_manager
                 /\ call'[c].pc = "idle" ]_vars

\* C7: a step in which a session takes no part (reset_chat aside) changes
\* nothing of what the session observes: counter, phase, messages, patient_context
C7_SessionsIsolated ==
    [][ \A s \in Sessions :
          ( /\ \A c \in Chains : SessionOf(c) = s => call'[c] = call[c]
            /\ chat_history'[s] = chat_history[s]
            /\ ret'.op # "reset_chat" )
          => /\ conversation_turns' = conversation_turns
             /\ memory_manager' = memory_manager ]_vars

\* C8: no list of patient_context holds the same utterance twice
C8_NoFieldDuplicates ==
    /\ NoDuplicates(memory_manager.patient_context.symptoms)
    /\ NoDuplicates(memory_manager.patient_context.timeline)
    /\ NoDuplicates(memory_manager.patient_context.medications)
    /\ NoDuplicates(memory_manager.patient_context.allergies)

\* C9: symptoms holds an utterance once, however many turns recorded it
C9_SymptomsOnce ==
    NoDuplicates(memory_manager.patient_context.symptoms)

\* C9 witness: two turns recorded the same symptom utterance, stored once
C9_Witness ==
    /\ \E i, j \in 1..Len(memory_manager.messages) :
         /\ i < j
         /\ memory_manager.messages[i] = HumanMessage(PAIN)
         /\ memory_manager.messages[j] = HumanMessage(PAIN)
    /\ memory_manager.patient_context.symptoms = << PAIN >>

\* C10: get_patient_summary changes nothing of the memory manager, and called
\* right after itself returns the same text
C10_SummaryReadOnly ==
    [][ ret'.op = "get_patient_summary" =>
          /\ memory_manager' = memory_manager
          /\ ret.op = "get_patient_summary" => ret'.value = ret.value ]_vars

\* C10 witness: get_patient_summary returned on a manager holding three
\* timeline entries
C10_Witness ==
    /\ ret.op = "get_patient_summary"
    /\ Len(memory_manager.patient_context.timeline) >= 3
    /\ Len(memory_manager.messages) >= 6

\* the utterance u was recorded by an add_interaction since the last reset
Recorded(mm, u) == InList(HumanMessage(u), mm.messages)

\* the categories whose keywords the utterances of the model hold, read off
\* the keyword lists by hand
Mentions(u) ==
    CASE u = PAIN              -> { "symptoms" }
      [] u = PAIN_7            -> { "symptoms" }
      [] u = SEVEN_PAIN        -> { "symptoms" }
      [] u = PILLS_TODAY       -> { "timeline", "medications" }
      [] u = HEADACHE_ALLERGIC -> { "symptoms", "allergies" }
      [] u = SEVEN_NEWLINE_PAIN -> { "symptoms" }
      [] OTHER                 -> { }

\* the lists of patient_context that take utterances, and the keywords of each
CategoryKeywords ==
    [ symptoms |-> symptom_keywords, timeline |-> time_keywords,
      medications |-> med_keywords, allergies |-> allergy_keywords ]

\* for each utterance of the model, the categories of which a keyword is
\* in the lower-cased utterance
Matching ==
    [ u \in MemoryInputs |->
        { name \in DOMAIN CategoryKeywords :
            AnyKeyword(Lower(u), CategoryKeywords[name]) } ]

\* C11: add_interaction of an utterance not recorded before appends the
\* utterance, as it is, to each of symptoms, timeline, medications, allergies
\* of which a keyword is in the lower-cased utterance, and leaves the other
\* lists as they are, whichever other categories matched
C11_CategoriesIndependent ==
    [][ (ret'.op = "add_interaction" /\ ~Recorded(memory_manager, ret'.human_input)) =>
          LET u   == ret'.human_input
              old == memory_manager.patient_context
              new == memory_manager'.patient_context
          IN  /\ Matching[u] = Mentions(u)
              /\ \A name \in DOMAIN CategoryKeywords :
                    new[name] = IF name \in Matching[u] THEN Append(old[name], u)
                                ELSE old[name] ]_vars

\* C11 witness: an utterance with a symptom keyword and an allergy keyword was
\* recorded after another one, and is the newest entry of both lists only
C11_Witness ==
    LET pc == memory_manager.patient_context
    IN  /\ ret.op = "add_interaction" /\ ret.human_input = HEADACHE_ALLERGIC
        /\ pc.symptoms = << PAIN, HEADACHE_ALLERGIC >>
        /\ pc.allergies = << HEADACHE_ALLERGIC >>
        /\ pc.timeline = << >> /\ pc.medications = << >>

\* the numbers 1 to 10 as they are written
NumberTexts == { << Digits[d] >> : d \in 2..10 } \cup { << "1", "0" >> }

\* the places of the utterance s where a number 1-10 stands alone and one of
\* the words pain, severity, scale comes anywhere after it
SeveritySpans(s) ==
    { i \in 1..Len(s) :
        \E n \in NumberTexts :
          LET e == i + Len(n) - 1
          IN  /\ e <= Len(s)
              /\ SubSeq(s, i, e) = n
              /\ (i = 1 \/ ~IsWordChar(s[i - 1]))
              /\ (e = Len(s) \/ ~IsWordChar(s[e + 1]))
              /\ AnyKeyword(SubSeq(s, e + 1, Len(s)), severity_words) }

\* the number that stands at place i of s
NumberAt(s, i) ==
    IF i + 1 <= Len(s) /\ SubSeq(s, i, i + 1) = << "1", "0" >>
    THEN << "1", "0" >> ELSE << s[i] >>

\* C12: add_interaction of an utterance in which a number 1-10 stands alone
\* and pain, severity or scale comes anywhere later adds exactly one entry to
\* severity_scores, the leftmost such number (as it is written); of any other
\* utterance, none
C12_SeverityFirstNumber ==
    [][ ret'.op = "add_interaction" =>
          LET s     == Lower(ret'.human_input)
              old   == memory_manager.patient_context.severity_scores
              new   == memory_manager'.patient_context.severity_scores
              spans == SeveritySpans(s)
          IN  IF spans = {} THEN new = old
              ELSE /\ Len(new) = Len(old) + 1
                   /\ SubSeq(new, 1, Len(old)) = old
                   /\ new[Len(new)].value.value = NumberAt(s, Min(spans)) ]_vars

\* a step in which a chain enters respond
RespondCalled == \E c \in Chains : ~InRespond(call[c]) /\ InRespond(call'[c])

\* C13: every call of respond raises conversation_turns by exactly 1; nothing
\* else raises it; only reset_chat lowers it, and then to 0
C13_CounterMonotone ==
    [][ /\ RespondCalled => conversation_turns' = conversation_turns + 1
        /\ conversation_turns' > conversation_turns => RespondCalled
        /\ conversation_turns' < conversation_turns =>
              ret'.op = "reset_chat" /\ conversation_turns' = 0 ]_vars

\* C13 witness: the second call of respond since a reset_chat returned, the
\* fourth call in all, and the counter is 2
C13_Witness ==
    /\ ret.op = "respond" /\ ret.turn = 2
    /\ conversation_turns = 2 /\ respond_calls = 4

\* C14: every value of severity_scores is an int from 1 to 10
C14_SeverityIsInteger ==
    \A i \in 1..Len(memory_manager.patient_context.severity_scores) :
        LET v == memory_manager.patient_context.severity_scores[i].value
        IN  v.type = "int" /\ v.value \in 1..10

\* C15: when no event chain is under way (every bot_response_handler that was
\* started has returned), every entry of the Chatbot value that has a user
\* message has an assistant text
C15_NoReplyMissing ==
    (\A c \in Chains : call[c].pc = "idle") =>
        \A s \in Sessions : \A i \in 1..Len(chat_history[s]) :
            chat_history[s][i][1] # None => chat_history[s][i][2] # None

\* max_new_tokens of the calls of generate a call of respond made, in order
Budgets(requests) == [ i \in 1..Len(requests) |-> requests[i].max_new_tokens ]

\* C16: a call of respond with the counter below 4 makes one call of generate,
\* with 256 tokens; every call with the counter at 4 or more (the 4th, 5th,
\* ... turn alike) makes two, with 500 and then 400 tokens, unless the first
\* raised; every call of generate is made with temperature 0.7
C16_SummaryEveryTurn ==
    /\ ret.op = "respond" =>
         /\ ret.turn < 4 => Budgets(ret.requests) = << 256 >>
         /\ ret.turn >= 4 =>
              \/ Budgets(ret.requests) = << 500, 400 >>
              \/ /\ Budgets(ret.requests) = << 500 >>
                 /\ Reply(ret) = error_message(LOAD_ERROR)
         /\ \A i \in 1..Len(ret.requests) : ret.requests[i].temperature = "0.7"
    /\ \A c \in Chains :
         /\ call[c].pc = "gathering" => Budgets(call[c].requests) = << 256 >>
         /\ call[c].pc = "summary" => Budgets(call[c].requests) = << 500 >>
         /\ call[c].pc = "medicine" => Budgets(call[c].requests) = << 500, 400 >>

\* C16 witness: the 5th turn returned the combined reply after two calls of
\* generate, as the 4th had
C16_Witness ==
    /\ ret.op = "respond" /\ ret.turn = 5
    /\ Budgets(ret.requests) = << 500, 400 >>
    /\ IsCombined(Reply(ret))

\* C17: the reply of a summary turn in which both calls of generate delivered
\* holds, in this order, the summary text, the medication text, the patient
\* summary taken for the turn and, last, the disclaimer; that reply is the AI
\* message recorded in memory, the reply appended to the history respond was
\* given, and the reply shown in the page
C17_CombinedReply ==
    (ret.op = "respond" /\ ret.phase = "SUMMARY" /\ ~ret.degraded) =>
        LET reply    == Reply(ret)
            shown    == chat_history[ret.session]
            messages == memory_manager.messages
        IN  /\ Len(ret.responses) = 2
            /\ reply = << SUMMARY_HEADER >> \o ret.responses[1]
                       \o << MEDICINE_HEADER >> \o ret.responses[2]
                       \o << CONTEXT_HEADER >> \o ret.patient_summary
                       \o << DISCLAIMER >>
            /\ ret.value = << << >>, Append(ret.chat_history, << ret.message, reply >>) >>
            /\ Len(messages) >= 2
            /\ messages[Len(messages) - 1] = HumanMessage(ret.message)
            /\ messages[Len(messages)] = AIMessage(reply)
            /\ shown[Len(shown)][2] = format_message(reply)

\* C17 witness: a summary turn returned a reply built from two different
\* generated texts and a patient summary that lists a symptom
C17_Witness ==
    /\ ret.op = "respond" /\ ret.phase = "SUMMARY" /\ ~ret.degraded
    /\ Len(ret.responses) = 2 /\ ret.responses[1] # ret.responses[2]
    /\ ret.patient_summary = json_dumps(
          [ conversation_turns |-> 3, key_symptoms |-> << PAIN >>,
            timeline_info |-> << >>, medications |-> << >>, allergies |-> << >>,
            severity_scores |-> << >> ])
    /\ memory_manager.messages[Len(memory_manager.messages)] = AIMessage(Reply(ret))

RECURSIVE PatientDoctorLines(_)
\* one Patient line for each pair, followed by a Doctor line when the pair
\* has an assistant text
PatientDoctorLines(pairs) ==
    IF pairs = << >> THEN << >>
    ELSE LET user_msg      == Head(pairs)[1]
             assistant_msg == Head(pairs)[2]
         IN  << "Patient: " >> \o user_msg \o << "\n" >>
             \o (IF assistant_msg = None \/ assistant_msg = << >> THEN << >>
                 ELSE << "Doctor: " >> \o assistant_msg \o << "\n" >>)
             \o PatientDoctorLines(Tail(pairs))

\* C18: the prompt is, in this order: the instruction template; the block
\* "Previous conversation context" exactly when the memory context is not
\* empty; exactly when the history is not empty, the block of its last three
\* pairs, oldest first, as Patient and Doctor lines, with no Doctor line for a
\* pair without assistant text; the utterance as a Patient line and the cue
\* "Doctor:"
C18_PromptOrder ==
    ret.op = "build_gemini_prompt" =>
        LET context == get_memory_context(memory_manager)
            n       == Len(ret.history)
            recent  == SubSeq(ret.history, IF n > 3 THEN n - 2 ELSE 1, n)
        IN  ret.value =
                ret.system_prompt \o << "\n\n" >>
                \o (IF context = << >> THEN << >>
                    ELSE << "Previous conversation context:\n" >> \o context \o << "\n\n" >>)
                \o (IF n = 0 THEN << >>
                    ELSE << "Recent conversation:\n" >> \o PatientDoctorLines(recent) \o << "\n" >>)
                \o << "Patient: " >> \o ret.user_input \o << "\n\nDoctor:" >>

\* C18 witness: a prompt was built from a history of four pairs, the last
\* three of them different and one without assistant text, over a memory
\* that holds messages
C18_Witness ==
    /\ ret.op = "build_gemini_prompt"
    /\ ret.history = << << PAIN, << "o", "k" >> >>, << PILLS_TODAY, << >> >>,
                        << HELLO, None >>, << PAIN, << "o", "k" >> >> >>
    /\ memory_manager.messages # << >>

\* the messages of the window: the newest 2k of those stored
Window(mm) == LastN(mm.messages, 2 * mm.k)

RECURSIVE ContextLines(_)
\* one line for each message, "Patient: " before a user message and
\* "Doctor: " before an assistant message, the lines joined by line breaks
ContextLines(messages) ==
    IF messages = << >> THEN << >>
    ELSE (IF Head(messages).type = "human" THEN << "Patient: " >> ELSE << "Doctor: " >>)
         \o Head(messages).content
         \o (IF Tail(messages) = << >> THEN << >>
             ELSE << "\n" >> \o ContextLines(Tail(messages)))

\* the line labels of a context text, in the order they come
LineLabels(text) == SelectSeq(text, LAMBDA x : x \in { "Patient: ", "Doctor: " })

\* C19: the text get_memory_context returns to a summary turn is the last 6
\* messages of the window (all of them when there are fewer), in stored
\* order, one line each, and its lines go Patient, Doctor, Patient, Doctor, ...
C19_ContextLastSix ==
    [][ \A c \in Chains :
          (call[c].pc = "then" /\ call'[c].pc = "summary") =>
              LET context == call'[c].memory_context
                  labels  == LineLabels(context)
              IN  /\ context = ContextLines(LastN(Window(memory_manager), 6))
                  /\ Len(labels) = IF Len(memory_manager.messages) < 6
                                   THEN Len(memory_manager.messages) ELSE 6
                  /\ \A i \in 1..Len(labels) :
                        labels[i] = IF i % 2 = 1 THEN "Patient: " ELSE "Doctor: " ]_vars

\* C19 witness: a summary turn waits for generate with a memory context of six
\* lines, taken while eight messages were stored
C19_Witness ==
    \E c \in Chains :
        /\ call[c].pc = "summary"
        /\ Len(LineLabels(call[c].memory_context)) = 6
        /\ Len(memory_manager.messages) = 8

\* C20: the text get_patient_summary returns is the JSON of: conversation_turns,
\* half the number of stored messages (rounded down); key_symptoms, the last 3
\* symptoms; timeline_info, the last 2 timeline entries; medications,
\* allergies and severity_scores, whole
C20_SummaryFields ==
    ret.op = "get_patient_summary" =>
        LET pc == memory_manager.patient_context
            n  == Len(pc.symptoms)
            t  == Len(pc.timeline)
        IN  ret.value = json_dumps(
              [ conversation_turns |-> Len(memory_manager.messages) \div 2,
                key_symptoms       |-> SubSeq(pc.symptoms, IF n > 3 THEN n - 2 ELSE 1, n),
                timeline_info      |-> SubSeq(pc.timeline, IF t > 2 THEN t - 1 ELSE 1, t),
                medications        |-> pc.medications,
                allergies          |-> pc.allergies,
                severity_scores    |-> pc.severity_scores ])

\* C20 witness: get_patient_summary returned over four symptoms, an allergy
\* and a severity score
C20_Witness ==
    /\ ret.op = "get_patient_summary"
    /\ Len(memory_manager.patient_context.symptoms) = 4
    /\ memory_manager.patient_context.allergies # << >>
    /\ memory_manager.patient_context.severity_scores # << >>

\* C21: the patient_context after add_interaction(u, a) is the one after
\* add_interaction(u, a2) for every assistant text a2, whatever keywords a2
\* holds: the assistant text changes no field of patient_context
C21_ReplyNotScanned ==
    [][ ret'.op = "add_interaction" =>
          \A a2 \in ReplyTexts :
              memory_manager'.patient_context =
                  add_interaction(memory_manager, ret'.human_input, a2, clock).patient_context ]_vars

\* C21 witness: "hello" was recorded with an assistant text that holds a time
\* keyword and a medication keyword, after an assistant text with a severity,
\* and patient_context holds no fact
C21_Witness ==
    LET messages == memory_manager.messages
        pc       == memory_manager.patient_context
    IN  /\ ret.op = "add_interaction" /\ ret.human_input = HELLO
        /\ Len(messages) = 4
        /\ messages[2] = AIMessage(SEVEN_PAIN)
        /\ messages[4] = AIMessage(PILLS_TODAY)
        /\ pc.timeline = << >> /\ pc.medications = << >>
        /\ pc.symptoms = << >> /\ pc.severity_scores = << >>

\* C22: every call respond(message, history), whichever way it ends, returns
\* "" for the message box and the history it was given with exactly one entry
\* more, whose user component is message; the reply shown in the page is the
\* assistant component of that entry
C22_OneEntryAppended ==
    ret.op = "respond" =>
        LET given    == ret.chat_history
            returned == ret.value[2]
            shown    == chat_history[ret.session]
        IN  /\ ret.value[1] = << >>
            /\ Len(returned) = Len(given) + 1
            /\ SubSeq(returned, 1, Len(given)) = given
            /\ returned[Len(returned)][1] = ret.message
            /\ returned[Len(returned)][2] # None
            /\ shown[Len(shown)][2] = format_message(returned[Len(returned)][2])

\* C22 witness: a summary turn returned a history of four entries, the first
\* of them appended by a call that took the failure path, the next two by
\* gathering turns
C22_Witness ==
    /\ ret.op = "respond" /\ ret.phase = "SUMMARY"
    /\ Len(ret.value[2]) = 4
    /\ ret.value[2][1] = << PAIN, error_message(LOAD_ERROR) >>
    /\ ret.value[2][2] = << PAIN, << "o", "k" >> >>
    /\ IsCombined(ret.value[2][4][2])

\* C23: the patient summary a summary turn takes on entry is the summary of
\* the memory as it is before the turn records anything (its
\* conversation_turns is the number of exchanges stored so far, its lists end
\* with the facts stored so far), and taking it records nothing; the reply of
\* the turn holds that same text, between the patient-context heading and the
\* disclaimer, and the step that returns it is the one that records the
\* utterance of the turn
C23_SnapshotBeforeRecording ==
    [][ \A c \in Chains :
          /\ (call[c].pc = "then" /\ call'[c].pc = "summary") =>
                LET pc == memory_manager.patient_context
                    n  == Len(pc.symptoms)
                    t  == Len(pc.timeline)
                IN  /\ call'[c].patient_summary = json_dumps(
                          [ conversation_turns |-> Len(memory_manager.messages) \div 2,
                            key_symptoms    |-> SubSeq(pc.symptoms, IF n > 3 THEN n - 2 ELSE 1, n),
                            timeline_info   |-> SubSeq(pc.timeline, IF t > 2 THEN t - 1 ELSE 1, t),
                            medications     |-> pc.medications,
                            allergies       |-> pc.allergies,
                            severity_scores |-> pc.severity_scores ])
                    /\ memory_manager' = memory_manager
          /\ (call[c].pc = "medicine" /\ call'[c].pc = "idle" /\ Len(ret'.responses) = 2) =>
                LET snapshot == call[c].patient_summary
                    reply    == Reply(ret')
                IN  /\ LastN(reply, Len(snapshot) + 2)
                          = << CONTEXT_HEADER >> \o snapshot \o << DISCLAIMER >>
                    /\ memory_manager'.messages =
                          memory_manager.messages
                          \o << HumanMessage(call[c].message), AIMessage(reply) >> ]_vars

\* C23 witness: the fourth turn brought the first utterance with a symptom;
\* its reply holds a patient summary of three turns and no symptom, and the
\* memory now holds four exchanges and the symptom
C23_Witness ==
    /\ ret.op = "respond" /\ ret.phase = "SUMMARY" /\ Len(ret.responses) = 2
    /\ ret.message = PAIN
    /\ ret.patient_summary = json_dumps(
          [ conversation_turns |-> 3, key_symptoms |-> << >>,
            timeline_info |-> << >>, medications |-> << >>, allergies |-> << >>,
            severity_scores |-> << >> ])
    /\ IsCombined(Reply(ret))
    /\ Len(memory_manager.messages) = 8
    /\ memory_manager.patient_context.symptoms = << PAIN >>

\* C24: after a reset_chat the memory holds nothing but what the turns begun
\* since that reset recorded, and the counter counts those turns: the counter
\* is their number, at most two messages are stored for each of them, and at
\* most one entry of each list of patient_context, also when a call of respond
\* was waiting for generate while reset_chat ran
C24_ResetForgetsInFlight ==
    LET pc == memory_manager.patient_context
    IN  /\ conversation_turns = turns_since_reset
        /\ Len(memory_manager.messages) <= 2 * turns_since_reset
        /\ Len(pc.symptoms) <= turns_since_reset
        /\ Len(pc.timeline) <= turns_since_reset
        /\ Len(pc.medications) <= turns_since_reset
        /\ Len(pc.allergies) <= turns_since_reset
        /\ Len(pc.severity_scores) <= turns_since_reset

\* the threads whose play_worker is writing a block of audio
Writing == { t \in Threads : threads[t].pc = "write" }

\* the threads whose play_worker has begun and not ended
Playing == { t \in Threads : threads[t].pc \in { "play_worker", "write", "finally" } }

\* C25: at no time are two play_workers writing audio, and is_bot_speaking is
\* true only while a play_worker is under way (a play_worker that was told to
\* stop, and has yet to test the flag, is not held against the claim)
C25_PlaybackExclusive ==
    /\ Cardinality(Writing) <= 1
    /\ interface_instance.is_bot_speaking => Playing # {}

====
